---- MODULE Spec2Model ----
(***************************************************************************)
(* Model of prism's overlay window (src/main.go).                          *)
(*                                                                         *)
(* The program keeps no visibility flag of its own: the only state is the  *)
(* window itself.  Three pieces of code issue commands on it:              *)
(*   - the hotkey goroutine of handleHotkey (lines 119-131), which calls   *)
(*     window.IsVisible() and then Hide(), or Show() and Focus();          *)
(*   - the WindowLostFocus callback (lines 98-100), which calls Hide();    *)
(*   - the "escape" key binding (lines 72-76), which calls Hide().         *)
(* Each call on the window is one atomic step; the steps of the hotkey     *)
(* goroutine interleave freely with the callbacks, as nothing in the code  *)
(* orders them.                                                            *)
(***************************************************************************)
EXTENDS Integers, Sequences, FiniteSets

VARIABLES
    app,        \* "running" while app.Run() blocks, "exited" after it returns
    window,     \* the overlay window: [visible, focused]
    hotkey,     \* showHideHotkey: "unregistered", "registered" or "failed"
    pc,         \* position of handleHotkey and of the goroutine it starts
    ev,         \* number of the keydown event the goroutine is handling (0: none)
    keydown,    \* showHideHotkey.Keydown(): the presses delivered, not yet received
    lostFocus,  \* WindowLostFocus notifications raised, callback not yet run
    calls,      \* history: the Show/Hide/Focus calls made on the window, in order
    windows,    \* number of windows created by the tray menu item
    presses,    \* number of hotkey presses so far
    inputs      \* number of other user inputs so far (clicks, escape, menu)

vars == <<app, window, hotkey, pc, ev, keydown, lostFocus, calls, windows,
          presses, inputs>>

\* Bounds of the model.
MaxPresses == 3
MaxInputs == 2
MaxLivePresses == 2
MaxLiveInputs == 1

\* WebviewWindowOptions of the overlay window sets no Hidden field: its zero
\* value is false, so the window is put on screen when the application runs.
OptionsHidden == FALSE

Call(src, cmd, e, post) ==
    [src |-> src, cmd |-> cmd, ev |-> e, pre |-> window.visible, post |-> post]

\* One call on the window: its new state, the focus-lost notification the
\* window raises when the call takes the input focus away from it, and the
\* entry in the history.  pending is the number of notifications left once
\* the caller has consumed its own.
Issue(src, cmd, e, visible, focused, pending) ==
    /\ window' = [visible |-> visible, focused |-> focused]
    /\ lostFocus' = pending + (IF window.focused /\ ~focused THEN 1 ELSE 0)
    /\ calls' = Append(calls, Call(src, cmd, e, visible))

\* As WindowHide, but a hide raises a focus-lost notification even when the
\* window did not have the focus.
WindowHide_AlwaysNotify(src, e, pending) ==
    /\ window' = [visible |-> FALSE, focused |-> FALSE]
    /\ lostFocus' = pending + 1
    /\ calls' = Append(calls, Call(src, "hide", e, FALSE))

\* window.Hide(): the window leaves the screen and cannot keep the focus.
WindowHide(src, e, pending) ==
    Issue(src, "hide", e, FALSE, FALSE, pending)

\* window.Show(): the window is on screen; whether it also becomes the key
\* window depends on the platform.
WindowShow(src, e, pending) ==
    \E key \in BOOLEAN :
        Issue(src, "show", e, TRUE, window.focused \/ key, pending)

\* window.Focus(): a visible window takes the focus; on a hidden window the
\* platform either ignores the request or orders the window front.
WindowFocus(src, e, pending) ==
    \E front \in BOOLEAN :
        Issue(src, "focus", e, window.visible \/ front, window.visible \/ front,
              pending)

Init ==
    /\ app = "running"
    /\ window \in {[visible |-> ~OptionsHidden, focused |-> f] :
                      f \in {g \in BOOLEAN : g => ~OptionsHidden}}
    /\ hotkey = "unregistered"
    /\ pc = "Register"
    /\ ev = 0
    /\ keydown = <<>>
    /\ lostFocus = 0
    /\ calls = <<>>
    /\ windows = 0
    /\ presses = 0
    /\ inputs = 0

----------------------------------------------------------------------------
(* handleHotkey *)

\* showHideHotkey.Register() succeeds: the goroutine starts and waits.
RegisterOk ==
    /\ app = "running" /\ pc = "Register"
    /\ hotkey' = "registered"
    /\ pc' = "range"
    /\ UNCHANGED <<app, window, ev, keydown, lostFocus, calls, windows,
                   presses, inputs>>

\* As RegisterFail, with log.Fatal in place of log.Println.
RegisterFail_Fatal ==
    /\ app = "running" /\ pc = "Register"
    /\ hotkey' = "failed"
    /\ pc' = "returned"
    /\ app' = "exited"
    /\ UNCHANGED <<window, ev, keydown, lostFocus, calls, windows, presses,
                   inputs>>

\* showHideHotkey.Register() fails: the error is logged and handleHotkey
\* returns without starting the goroutine.
RegisterFail ==
    /\ app = "running" /\ pc = "Register"
    /\ hotkey' = "failed"
    /\ pc' = "returned"
    /\ UNCHANGED <<app, window, ev, keydown, lostFocus, calls, windows,
                   presses, inputs>>

\* As HotkeyReceive, keeping only the latest press: the backlog is merged
\* into one event.
HotkeyReceive_DropsBacklog ==
    /\ app = "running" /\ pc = "range"
    /\ keydown # <<>>
    /\ ev' = keydown[Len(keydown)]
    /\ keydown' = <<>>
    /\ pc' = "IsVisible"
    /\ UNCHANGED <<app, window, hotkey, lostFocus, calls, windows, presses,
                   inputs>>

\* for range showHideHotkey.Keydown(): receive the oldest press.
HotkeyReceive ==
    /\ app = "running" /\ pc = "range"
    /\ keydown # <<>>
    /\ ev' = Head(keydown)
    /\ keydown' = Tail(keydown)
    /\ pc' = "IsVisible"
    /\ UNCHANGED <<app, window, hotkey, lostFocus, calls, windows, presses,
                   inputs>>

\* As HotkeyCheck, without the test: every press shows the window.
HotkeyCheck_NoBranch ==
    /\ app = "running" /\ pc = "IsVisible"
    /\ pc' = "Show"
    /\ UNCHANGED <<app, window, hotkey, ev, keydown, lostFocus, calls,
                   windows, presses, inputs>>

\* if window.IsVisible(): a query of the window itself.
HotkeyCheck ==
    /\ app = "running" /\ pc = "IsVisible"
    /\ pc' = IF window.visible THEN "Hide" ELSE "Show"
    /\ UNCHANGED <<app, window, hotkey, ev, keydown, lostFocus, calls,
                   windows, presses, inputs>>

\* As HotkeyHide, falling through to the Focus() of the other branch.
HotkeyHide_ThenFocus ==
    /\ app = "running" /\ pc = "Hide"
    /\ WindowHide("hotkey", ev, lostFocus)
    /\ pc' = "Focus"
    /\ UNCHANGED <<app, hotkey, ev, keydown, windows, presses, inputs>>

\* window.Hide() and the log line; back to the range.
HotkeyHide ==
    /\ app = "running" /\ pc = "Hide"
    /\ WindowHide("hotkey", ev, lostFocus)
    /\ pc' = "range"
    /\ ev' = 0
    /\ UNCHANGED <<app, hotkey, keydown, windows, presses, inputs>>

\* As HotkeyShow, without the Focus() that follows it.
HotkeyShow_NoFocus ==
    /\ app = "running" /\ pc = "Show"
    /\ WindowShow("hotkey", ev, lostFocus)
    /\ pc' = "range"
    /\ ev' = 0
    /\ UNCHANGED <<app, hotkey, keydown, windows, presses, inputs>>

\* window.Show()
HotkeyShow ==
    /\ app = "running" /\ pc = "Show"
    /\ WindowShow("hotkey", ev, lostFocus)
    /\ pc' = "Focus"
    /\ UNCHANGED <<app, hotkey, ev, keydown, windows, presses, inputs>>

\* window.Focus() and the log line; back to the range.
HotkeyFocus ==
    /\ app = "running" /\ pc = "Focus"
    /\ WindowFocus("hotkey", ev, lostFocus)
    /\ pc' = "range"
    /\ ev' = 0
    /\ UNCHANGED <<app, hotkey, keydown, windows, presses, inputs>>

----------------------------------------------------------------------------
(* callbacks registered in main *)

\* As FocusLostHandler, toggling: a hidden window is shown.
FocusLostHandler_Toggle ==
    /\ app = "running"
    /\ lostFocus > 0
    /\ IF window.visible
          THEN WindowHide("focuslost", 0, lostFocus - 1)
          ELSE WindowShow("focuslost", 0, lostFocus - 1)
    /\ UNCHANGED <<app, hotkey, pc, ev, keydown, windows, presses, inputs>>

\* As FocusLostHandler, with an empty callback: the notification is consumed
\* and the window is left alone.
FocusLostHandler_Drop ==
    /\ app = "running"
    /\ lostFocus > 0
    /\ lostFocus' = lostFocus - 1
    /\ UNCHANGED <<app, window, hotkey, pc, ev, keydown, calls, windows,
                   presses, inputs>>

\* window.OnWindowEvent(events.Common.WindowLostFocus, ...): window.Hide(),
\* whatever the window's state.
FocusLostHandler ==
    /\ app = "running"
    /\ lostFocus > 0
    /\ WindowHide("focuslost", 0, lostFocus - 1)
    /\ UNCHANGED <<app, hotkey, pc, ev, keydown, windows, presses, inputs>>

\* KeyBindings "escape": window.Hide().  A key binding fires on a key typed
\* into the window, so the window has the focus.
EscapeBinding ==
    /\ app = "running"
    /\ window.focused
    /\ inputs < MaxInputs
    /\ inputs' = inputs + 1
    /\ WindowHide("escape", 0, lostFocus)
    /\ UNCHANGED <<app, hotkey, pc, ev, keydown, windows, presses>>

\* As MenuClick, with the menu item routed to the overlay: it is shown too.
MenuClick_ShowsOverlay ==
    /\ app = "running"
    /\ inputs < MaxInputs
    /\ inputs' = inputs + 1
    /\ windows' = windows + 1
    /\ WindowShow("menu", 0, lostFocus)
    /\ UNCHANGED <<app, hotkey, pc, ev, keydown, presses>>

\* As MenuClick, with the menu item also raising the overlay: it calls
\* window.Focus().
MenuClick_FocusesOverlay ==
    /\ app = "running"
    /\ inputs < MaxInputs
    /\ inputs' = inputs + 1
    /\ windows' = windows + 1
    /\ WindowFocus("menu", 0, lostFocus)
    /\ UNCHANGED <<app, hotkey, pc, ev, keydown, presses>>

\* myMenu "Hello World!" OnClick: a new window, nothing else.  The new
\* window may take the input focus; an overlay that had it then loses it and
\* the window system raises WindowLostFocus.
MenuClick ==
    /\ app = "running"
    /\ inputs < MaxInputs
    /\ inputs' = inputs + 1
    /\ windows' = windows + 1
    /\ \E takes \in BOOLEAN :
          /\ window' = [window EXCEPT !.focused = window.focused /\ ~takes]
          /\ lostFocus' = lostFocus + (IF window.focused /\ takes THEN 1 ELSE 0)
    /\ UNCHANGED <<app, hotkey, pc, ev, keydown, calls, presses>>

----------------------------------------------------------------------------
(* the environment: the user and the window system *)

\* The user presses the registered key combination.
KeyPress ==
    /\ app = "running"
    /\ hotkey = "registered"
    /\ presses < MaxPresses
    /\ presses' = presses + 1
    /\ keydown' = Append(keydown, presses + 1)
    /\ UNCHANGED <<app, window, hotkey, pc, ev, lostFocus, calls, windows,
                   inputs>>

\* The user gives the focus to another application.
ClickAway ==
    /\ app = "running"
    /\ window.focused
    /\ inputs < MaxInputs
    /\ inputs' = inputs + 1
    /\ window' = [window EXCEPT !.focused = FALSE]
    /\ lostFocus' = lostFocus + 1
    /\ UNCHANGED <<app, hotkey, pc, ev, keydown, calls, windows, presses>>

\* The user clicks into the visible window.
ClickWindow ==
    /\ app = "running"
    /\ window.visible /\ ~window.focused
    /\ inputs < MaxInputs
    /\ inputs' = inputs + 1
    /\ window' = [window EXCEPT !.focused = TRUE]
    /\ UNCHANGED <<app, hotkey, pc, ev, keydown, lostFocus, calls, windows,
                   presses>>

\* app.Run() returns (quit, or an error and log.Fatal): main returns and the
\* process ends, whatever the goroutine is doing.
Quit ==
    /\ app = "running"
    /\ app' = "exited"
    /\ UNCHANGED <<window, hotkey, pc, ev, keydown, lostFocus, calls, windows,
                   presses, inputs>>

Next ==
    \/ RegisterOk
    \/ RegisterFail
    \/ HotkeyReceive
    \/ HotkeyCheck
    \/ HotkeyHide
    \/ HotkeyShow
    \/ HotkeyFocus
    \/ FocusLostHandler
    \/ EscapeBinding
    \/ MenuClick
    \/ KeyPress
    \/ ClickAway
    \/ ClickWindow
    \/ Quit

Spec == Init /\ [][Next]_vars

\* The runs checked for progress: the same steps, with fewer inputs of the
\* user.
LiveNext ==
    \/ RegisterOk
    \/ RegisterFail
    \/ HotkeyReceive
    \/ HotkeyCheck
    \/ HotkeyHide
    \/ HotkeyShow
    \/ HotkeyFocus
    \/ FocusLostHandler
    \/ (EscapeBinding /\ inputs' <= MaxLiveInputs)
    \/ (MenuClick /\ inputs' <= MaxLiveInputs)
    \/ (KeyPress /\ presses' <= MaxLivePresses)
    \/ (ClickAway /\ inputs' <= MaxLiveInputs)
    \/ (ClickWindow /\ inputs' <= MaxLiveInputs)
    \/ Quit

\* The Go scheduler runs a goroutine that can take a step, and the
\* application's event loop runs a callback whose event is pending: while
\* the process lives, no step of handleHotkey, of its goroutine or of the
\* WindowLostFocus callback is postponed for ever.  Nothing obliges the user
\* to act, nor the application to quit.
FairSpec ==
    /\ Init /\ [][LiveNext]_vars
    /\ WF_vars(RegisterOk \/ RegisterFail)
    /\ WF_vars(HotkeyReceive)
    /\ WF_vars(HotkeyCheck)
    /\ WF_vars(HotkeyHide)
    /\ WF_vars(HotkeyShow)
    /\ WF_vars(HotkeyFocus)
    /\ WF_vars(FocusLostHandler)

TypeOK ==
    /\ app \in {"running", "exited"}
    /\ window \in [visible : BOOLEAN, focused : BOOLEAN]
    /\ window.focused => window.visible
    /\ hotkey \in {"unregistered", "registered", "failed"}
    /\ pc \in {"Register", "returned", "range", "IsVisible", "Hide", "Show",
               "Focus"}
    /\ ev \in 0..presses
    /\ lostFocus \in Nat
    /\ windows \in Nat

----------------------------------------------------------------------------
(* Properties *)

IsCall(c, src, cmd) == c.src = src /\ c.cmd = cmd

\* The callback's call: one hide() by the focus-lost callback.
FocusLostHide(pre) ==
    [src |-> "focuslost", cmd |-> "hide", ev |-> 0, pre |-> pre, post |-> FALSE]

\* C1: a hotkey press and a focus-lost notification handled concurrently
\* behave as one whole transition followed by the other: the callback's
\* hide() never falls between the goroutine's IsVisible() and its Hide()
\* (both would have seen a visible window and both hide it), nor between its
\* Show() and its Focus().
C1_Serialized ==
    \A i \in 1..(Len(calls) - 1) :
        /\ ~(calls[i].src = "focuslost" /\ IsCall(calls[i + 1], "hotkey", "hide"))
        /\ ~(IsCall(calls[i], "hotkey", "show") /\ calls[i + 1].src = "focuslost")

\* The visibility last committed by a transition of the controller (a hotkey
\* press or a focus-lost notification handled to its end), "none" before the
\* first one or when the last one was cut by another call.
Transitions == {i \in 1..Len(calls) : calls[i].src \in {"hotkey", "focuslost"}}

LastTransition == CHOOSE i \in Transitions : \A j \in Transitions : j <= i

Committed ==
    IF Transitions = {} THEN "none"
    ELSE LET i == LastTransition IN
         IF calls[i].cmd = "hide" THEN "Hidden"
         ELSE IF /\ IsCall(calls[i], "hotkey", "focus")
                 /\ i > 1
                 /\ IsCall(calls[i - 1], "hotkey", "show")
              THEN "Visible"
              ELSE "none"

\* C2: a hotkey press is decided by the visibility the controller committed
\* last, not by the window's answer: after a committed transition to Visible
\* the press takes the hide() branch, after one to Hidden the show() branch.
C2_DecidedByCommittedState ==
    [][HotkeyCheck =>
          /\ (Committed = "Visible" => pc' = "Hide")
          /\ (Committed = "Hidden" => pc' = "Show")]_vars

C4_ToggleInvolution ==
    \A i \in 1..(Len(calls) - 2) :
        ( /\ IsCall(calls[i], "hotkey", "show") /\ ~calls[i].pre
          /\ IsCall(calls[i + 1], "hotkey", "focus")
          /\ calls[i + 2].src = "hotkey" )
        => /\ calls[i + 2].cmd = "hide"
           /\ calls[i + 2].ev = calls[i].ev + 1
           /\ calls[i + 2].pre /\ ~calls[i + 2].post
           /\ (i + 2 = Len(calls) => ~window.visible)

C4_Witness ==
    \E i \in 1..(Len(calls) - 2) :
        /\ IsCall(calls[i], "hotkey", "show") /\ ~calls[i].pre
        /\ IsCall(calls[i + 1], "hotkey", "focus")
        /\ IsCall(calls[i + 2], "hotkey", "hide")
        /\ i + 2 = Len(calls) /\ ~window.visible

\* The last three calls are the show(), focus() and hide() of two successive
\* hotkey presses that started from a hidden window.
ToggledBack ==
    /\ Len(calls) >= 3
    /\ LET n == Len(calls) IN
       /\ IsCall(calls[n - 2], "hotkey", "show") /\ ~calls[n - 2].pre
       /\ IsCall(calls[n - 1], "hotkey", "focus")
       /\ IsCall(calls[n], "hotkey", "hide")

C6_InitiallyHidden ==
    /\ (Transitions = {} /\ pc \in {"Register", "returned", "range"}
          => ~window.visible)
    /\ \A i \in 1..Len(calls) :
          calls[i].src = "hotkey" /\ calls[i].ev = 1
              => calls[i].cmd \in {"show", "focus"}

\* The calls the hotkey goroutine made for press e.
HotkeyCalls(e) ==
    {i \in 1..Len(calls) : calls[i].src = "hotkey" /\ calls[i].ev = e}

C8_VisibleHotkeyHides ==
    /\ [][HotkeyCheck /\ window.visible => pc' = "Hide"]_vars
    /\ [][pc = "Hide" /\ pc' # "Hide" =>
             /\ calls' = Append(calls, [src |-> "hotkey", cmd |-> "hide",
                                        ev |-> ev, pre |-> window.visible,
                                        post |-> FALSE])
             /\ ~window'.visible
             /\ pc' = "range"]_vars
    /\ [](\A i \in 1..Len(calls) :
             IsCall(calls[i], "hotkey", "hide") =>
                 HotkeyCalls(calls[i].ev) = {i})

C8_Witness ==
    /\ pc = "range" /\ ~window.visible
    /\ Len(calls) > 0
    /\ IsCall(calls[Len(calls)], "hotkey", "hide")
    /\ calls[Len(calls)].pre

\* C9: a focus-lost notification handled while the window is visible calls
\* hide() and leaves the window hidden, whether the user took the focus away
\* or an earlier hide() did.
C9_VisibleFocusLostHides ==
    [][FocusLostHandler /\ window.visible =>
          /\ calls' = Append(calls, FocusLostHide(TRUE))
          /\ ~window'.visible]_vars

C9_Witness ==
    /\ ~window.visible
    /\ Len(calls) > 0
    /\ calls[Len(calls)] = FocusLostHide(TRUE)

\* C10: when the registration of the hotkey fails the process keeps running,
\* the hotkey goroutine never exists (no press is received, no call is made
\* for the hotkey), and focus-lost notifications are still handled: each
\* pending one can be handled and hides a visible window.
C10_RegistrationFailureIsolated ==
    /\ [][hotkey # "failed" /\ hotkey' = "failed" => app' = "running"]_vars
    /\ [](hotkey = "failed" =>
             /\ pc = "returned" /\ ev = 0 /\ keydown = <<>>
             /\ \A i \in 1..Len(calls) : calls[i].src # "hotkey")
    /\ [](hotkey = "failed" /\ app = "running" /\ lostFocus > 0
             => ENABLED FocusLostHandler)
    /\ [][hotkey = "failed" /\ FocusLostHandler /\ window.visible =>
             /\ calls' = Append(calls, FocusLostHide(TRUE))
             /\ ~window'.visible]_vars

C10_Witness ==
    /\ hotkey = "failed" /\ app = "running"
    /\ ~window.visible
    /\ \E i \in 1..Len(calls) : calls[i] = FocusLostHide(TRUE)

\* C11: a tray-menu activation creates one new window and does nothing to
\* the overlay: its visibility is as before, no show/hide/focus is issued on
\* it and the hotkey goroutine is where it was; windows are created by
\* activations only, so N activations give exactly N windows.
C11_IndependentSpawn ==
    /\ [][MenuClick =>
             /\ windows' = windows + 1
             /\ window'.visible = window.visible
             /\ calls' = calls
             /\ pc' = pc /\ ev' = ev /\ keydown' = keydown]_vars
    /\ [][windows' # windows => MenuClick]_vars
    /\ [](windows \in 0..inputs)

C11_Witness ==
    /\ windows = 2
    /\ inputs = 2
    /\ calls = <<>>
    /\ window.visible

\* C12: at most one mutation of the overlay is in flight: while the hotkey
\* goroutine is between its IsVisible() and the last call of the press, no
\* other handler makes a call on the window.
C12_OneMutationInFlight ==
    [][(pc \in {"Hide", "Show", "Focus"} /\ calls' # calls) =>
          calls'[Len(calls')].src = "hotkey"]_vars

C16_FocusAfterShow ==
    \A i \in 1..Len(calls) :
        calls[i].cmd = "focus" =>
            /\ calls[i].src = "hotkey"
            /\ calls[i].pre
            /\ i > 1
            /\ IsCall(calls[i - 1], "hotkey", "show")
            /\ calls[i - 1].ev = calls[i].ev

\* C17: a transition in flight when the application shuts down runs to its
\* end: once the process has exited the goroutine is not left between the
\* receipt of a press and the last call made for it.
C17_ShutdownCancelsListening ==
    app = "exited" =>
        /\ pc \in {"Register", "returned", "range"}
        /\ ev = 0

\* C18: a hide() by the escape binding is never followed by a hide() of the
\* hotkey goroutine: the press that comes next shows the window, and no
\* press hides a window that escape has already hidden.
C18_NoPressWastedAfterEscape ==
    \A i \in 1..(Len(calls) - 1) :
        calls[i].src = "escape" =>
            ~IsCall(calls[i + 1], "hotkey", "hide")

\* Press e has been handled to the end.
HotkeyDone(e) == HotkeyCalls(e) # {} /\ ev # e

\* C14: the presses delivered are handled one at a time in the order of
\* their arrival: at any time the presses are, in order, those handled to
\* the end, then at most one in flight, then those still queued; each one
\* handled got either one hide() or a show() and a focus(); and, while the
\* process lives, every press delivered is eventually handled to the end.
C14_PressesInOrder ==
    /\ [](LET n == Len(keydown)
              first == presses - n
          IN  /\ n <= presses
              /\ keydown = [i \in 1..n |-> first + i]
              /\ (ev # 0 => ev = first)
              /\ \A e \in 1..first : e # ev => HotkeyDone(e)
              /\ \A e \in (first + 1)..presses : HotkeyCalls(e) = {})
    /\ [](\A e \in 1..presses : HotkeyDone(e) =>
             \/ \E i \in 1..Len(calls) :
                   /\ HotkeyCalls(e) = {i}
                   /\ calls[i].cmd = "hide"
             \/ \E i, j \in 1..Len(calls) :
                   /\ i < j
                   /\ HotkeyCalls(e) = {i, j}
                   /\ calls[i].cmd = "show" /\ calls[j].cmd = "focus")
    /\ [](\A i, j \in 1..Len(calls) :
             (i < j /\ calls[i].src = "hotkey" /\ calls[j].src = "hotkey")
                 => calls[i].ev <= calls[j].ev)
    /\ \A k \in 1..MaxLivePresses :
          (presses >= k) ~> (HotkeyDone(k) \/ app = "exited")

C14_Witness ==
    /\ app = "running"
    /\ presses >= 2
    /\ keydown = <<>> /\ ev = 0
    /\ \A e \in 1..presses : HotkeyDone(e)

\* What the handlers still have to do: the presses queued and in flight, the
\* notifications pending, and the focus whose loss would raise one more.
PcWork ==
    CASE pc = "IsVisible" -> 7
      [] pc = "Show" -> 6
      [] pc = "Focus" -> 3
      [] pc \in {"Hide", "Register"} -> 1
      [] OTHER -> 0

Work ==
    8 * Len(keydown) + PcWork + lostFocus + (IF window.focused THEN 2 ELSE 0)

HandlerStep ==
    \/ RegisterOk \/ RegisterFail
    \/ HotkeyReceive \/ HotkeyCheck \/ HotkeyHide \/ HotkeyShow \/ HotkeyFocus
    \/ FocusLostHandler

Quiescent ==
    \/ app = "exited"
    \/ /\ pc \in {"range", "returned"}
       /\ keydown = <<>>
       /\ lostFocus = 0

\* C15 as stated: a hide() raises at most one focus-lost notification, the
\* handling of that notification raises none, and the system comes to rest.
\* With no user input but hotkey presses, every notification is the echo of
\* a hide().
C15_NoFurtherNotification ==
    /\ [][calls' # calls => lostFocus' <= lostFocus + 1]_vars
    /\ [][FocusLostHandler /\ inputs = 0 => lostFocus' = lostFocus - 1]_vars
    /\ <>[]Quiescent

\* C15 as amended: a hide() raises at most one focus-lost notification; the
\* handling of a notification never adds to the number pending, and raises
\* one only when the window has the focus again by then; every step of a
\* handler reduces the work left, so the handlers cannot feed each other for
\* ever, and once the user stops the system comes to rest.
C15_NoFeedbackLoop ==
    /\ [][calls' # calls => lostFocus' <= lostFocus + 1]_vars
    /\ [][FocusLostHandler =>
             /\ lostFocus' <= lostFocus
             /\ (~window.focused => lostFocus' = lostFocus - 1)]_vars
    /\ [][HandlerStep => Work' < Work]_vars
    /\ <>[]Quiescent

C15_Witness ==
    /\ app = "running"
    /\ Quiescent
    /\ Len(calls) >= 2
    /\ calls[Len(calls) - 1].cmd = "hide" /\ calls[Len(calls) - 1].pre
    /\ calls[Len(calls)] = FocusLostHide(FALSE)
====
